---- MODULE Spec2Model ----
(***************************************************************************)
(* Model of bpf/lib/utils.h: the statement-expression macros __min/__max,  *)
(* their front ends min/max/min_t/max_t, and the plain ternary SIMPLE_MIN. *)
(*                                                                         *)
(* An execution context expands one macro over two operand expressions.   *)
(* Operand expressions are constants or accesses to the context's own      *)
(* counters (read, c++, ++c), so that evaluating an operand is observable. *)
(* The expansion is run statement by statement: bind _x, bind _y, compare, *)
(* select.  Line 17's pointer comparison has no run-time effect; it is the *)
(* build-time type check and is modelled by the Reject/Enter step.         *)
(*                                                                         *)
(* Integer types are the 8 and 16 bit kernel types.  Both are narrower     *)
(* than int, so the integer promotions applied by < and > and ?: keep the  *)
(* value and the comparison is the mathematical one.                       *)
(***************************************************************************)
EXTENDS Integers, Sequences, FiniteSets

\* ------------------------------------------------------------------ bounds

\* Number of execution contexts.
NProcs == 2
\* Constant operands are taken within MaxDelta of each probe point.
MaxDelta == 1
\* Largest initial value of a counter.
MaxCtr == 1

Procs == 1..NProcs

\* ------------------------------------------------------------------- types

Types == {"__s8", "__u8", "__s16", "__u16"}

Width(t) == IF t \in {"__s8", "__u8"} THEN 8 ELSE 16

Signed(t) == t \in {"__s8", "__s16"}

Modulus(t) == 2 ^ Width(t)

TypeMin(t) == IF Signed(t) THEN -(2 ^ (Width(t) - 1)) ELSE 0

TypeMax(t) == IF Signed(t) THEN 2 ^ (Width(t) - 1) - 1 ELSE Modulus(t) - 1

\* The initialisation `t _x = (x)` with truncation dropped: the operand's
\* value is stored as it is.
ConvertKeep(t, v) == v

\* The initialisation `t _x = (x)`: the value is reduced modulo 2^w and, for a
\* signed t, the upper half is read as negative.
Convert(t, v) ==
    LET m == v % Modulus(t)
    IN  IF Signed(t) /\ m >= 2 ^ (Width(t) - 1) THEN m - Modulus(t) ELSE m

\* ---------------------------------------------------------------- operands

Ctrs == {"a", "b"}

\* The declared type of the counters the operand expressions access.
CtrType == "__u8"

NoCtr == "-"

Const(t, v) == [op |-> "const", ty |-> t, v |-> v, c |-> NoCtr]

Access(o, c) == [op |-> o, ty |-> CtrType, v |-> 0, c |-> c]

IsConst(e) == e.op = "const"

HasEffect(e) == e.op \in {"postinc", "preinc"}

\* How many times one evaluation of e increments counter c.
Incs(e, c) == IF HasEffect(e) /\ e.c = c THEN 1 ELSE 0

\* Evaluating the operand expression e in the counter environment env:
\* the value it yields and the environment it leaves.
Eval(e, env) ==
    IF e.op = "const" THEN [val |-> e.v, env |-> env]
    ELSE IF e.op = "read" THEN [val |-> env[e.c], env |-> env]
    ELSE LET n == Convert(CtrType, env[e.c] + 1)
         IN  [val |-> IF e.op = "postinc" THEN env[e.c] ELSE n,
              env |-> [env EXCEPT ![e.c] = n]]

\* -------------------------------------------------------------- the macros

BlockKinds == {"min", "max", "min_t", "max_t"}

Kinds == BlockKinds \cup {"SIMPLE_MIN"}

NoType == "-"

\* t_x and t_y as the front ends pass them: typeof(x), typeof(y) for min and
\* max, the caller's t twice for min_t and max_t.
TX(i) == IF i.kind \in {"min", "max"} THEN i.x.ty ELSE i.t

TY(i) == IF i.kind \in {"min", "max"} THEN i.y.ty ELSE i.t

\* The type check with the check removed.
SameTypeOff(tx, ty) == TRUE

\* `(void) (&_x == &_y)`: comparing a t_x* with a t_y* draws a diagnostic unless
\* the pointed-to types are the same.
SameType(tx, ty) == tx = ty

\* Whether the build treats the diagnostic of SameType as an error.
DiagnosticIsError == TRUE

__min_flipped(a, b) == a > b

\* `_x < _y` of __min.
__min_cond(a, b) == a < b

__max_flipped(a, b) == a < b

__max_never(a, b) == FALSE

\* `_x > _y` of __max.
__max_cond(a, b) == a > b

Cond(kind, a, b) ==
    IF kind \in {"min", "min_t"} THEN __min_cond(a, b) ELSE __max_cond(a, b)

\* The value of the whole statement expression of __min/__max for invocation
\* i, its statements run in order with nothing in between.
StmtExpr(i) ==
    LET rx == Eval(i.x, i.env)
        ry == Eval(i.y, rx.env)
        vx == Convert(TX(i), rx.val)
        vy == Convert(TY(i), ry.val)
    IN  IF Cond(i.kind, vx, vy) THEN vx ELSE vy

\* ------------------------------------------------------------------ inputs

Probes == {-(2 ^ 15), -(2 ^ 8), -(2 ^ 7), 0, 2 ^ 7, 2 ^ 8, 2 ^ 15, 2 ^ 16}

Vals(t) ==
    {v \in {b + d : b \in Probes, d \in -MaxDelta..MaxDelta} :
        TypeMin(t) <= v /\ v <= TypeMax(t)}

ConstOperands == UNION {{Const(t, v) : v \in Vals(t)} : t \in Types}

EffectOperands == {Access(o, c) : o \in {"read", "postinc", "preinc"}, c \in Ctrs}

Operands == ConstOperands \cup EffectOperands

Uses(e, c) == ~IsConst(e) /\ e.c = c

\* Counter environments for operands x, y: a counter neither operand names
\* is left at 0.
Envs(x, y) ==
    {env \in [Ctrs -> 0..MaxCtr] :
        \A c \in Ctrs : (~Uses(x, c) /\ ~Uses(y, c)) => env[c] = 0}

KindTypes(k) == IF k \in {"min_t", "max_t"} THEN Types ELSE {NoType}

NoCall ==
    [kind |-> "none", t |-> NoType, x |-> Const(CtrType, 0),
     y |-> Const(CtrType, 0), env |-> [c \in Ctrs |-> 0]]

\* ------------------------------------------------------------------- state

VARIABLES
    inv,    \* per context: the invocation it expands (kind, t, x, y, env)
    pc,     \* per context: the statement it is at
    ctr,    \* per context: its counters
    _x,     \* per context: the temporary _x
    _y,     \* per context: the temporary _y
    lt,     \* per context: the outcome of the comparison
    evals,  \* per context: the operands evaluated so far, in order
    ret,    \* per context: the value of the macro, once pc is "done"
    diag    \* per context: whether the build emitted a diagnostic

vars == <<inv, pc, ctr, _x, _y, lt, evals, ret, diag>>

Start(calls) ==
    /\ inv = calls
    /\ pc = [p \in Procs |-> IF calls[p].kind = "none" THEN "idle" ELSE "compile"]
    /\ ctr = [p \in Procs |-> calls[p].env]
    /\ _x = [p \in Procs |-> 0]
    /\ _y = [p \in Procs |-> 0]
    /\ lt = [p \in Procs |-> FALSE]
    /\ evals = [p \in Procs |-> <<>>]
    /\ ret = [p \in Procs |-> 0]
    /\ diag = [p \in Procs |-> FALSE]

\* One context expands one macro over any pair of operands.
Init ==
    \E k \in Kinds, x \in Operands, y \in Operands :
        \E t \in KindTypes(k), env \in Envs(x, y) :
            Start([p \in Procs |->
                     IF p = 1
                     THEN [kind |-> k, t |-> t, x |-> x, y |-> y, env |-> env]
                     ELSE NoCall])

\* The operand pairs of the concurrent runs: context p passes its counter a,
\* holding p - 1, and the constant 1 of either 8 bit type.
ConcCalls(p) ==
    {[kind |-> k, t |-> t, x |-> Access("postinc", "a"), y |-> Const(ty, 1),
      env |-> [c \in Ctrs |-> IF c = "a" THEN p - 1 ELSE 0]] :
        k \in Kinds, t \in {NoType, CtrType}, ty \in {"__u8", "__s8"}}

\* Every context expands a macro, each over its own operands.
InitConc ==
    \E calls \in [Procs -> UNION {ConcCalls(p) : p \in Procs}] :
        /\ \A p \in Procs :
              calls[p] \in ConcCalls(p) /\ calls[p].t \in KindTypes(calls[p].kind)
        /\ Start(calls)

\* ----------------------------------------------------------------- actions

Mismatch(i) == i.kind \in {"min", "max"} /\ ~SameType(TX(i), TY(i))

\* The build of a min/max whose operand types differ: the diagnostic of line
\* 17 stops it, and nothing of the expansion runs.
Reject(p) ==
    /\ pc[p] = "compile"
    /\ Mismatch(inv[p])
    /\ DiagnosticIsError
    /\ pc' = [pc EXCEPT ![p] = "rejected"]
    /\ diag' = [diag EXCEPT ![p] = TRUE]
    /\ UNCHANGED <<inv, ctr, _x, _y, lt, evals, ret>>

\* The build succeeds and control reaches the expansion.
Enter(p) ==
    /\ pc[p] = "compile"
    /\ Mismatch(inv[p]) => ~DiagnosticIsError
    /\ pc' = [pc EXCEPT ![p] =
                IF inv[p].kind \in BlockKinds THEN "bind_x" ELSE "simple_cmp"]
    /\ diag' = [diag EXCEPT ![p] = Mismatch(inv[p])]
    /\ UNCHANGED <<inv, ctr, _x, _y, lt, evals, ret>>

\* BindX with _x a single static temporary, written for every context.
BindXShared(p) ==
    /\ pc[p] = "bind_x"
    /\ LET r == Eval(inv[p].x, ctr[p])
       IN  /\ _x' = [q \in Procs |-> Convert(TX(inv[p]), r.val)]
           /\ ctr' = [ctr EXCEPT ![p] = r.env]
    /\ evals' = [evals EXCEPT ![p] = Append(@, "x")]
    /\ pc' = [pc EXCEPT ![p] = "bind_y"]
    /\ UNCHANGED <<inv, _y, lt, ret, diag>>

\* `t_x _x = (x);`
BindX(p) ==
    /\ pc[p] = "bind_x"
    /\ LET r == Eval(inv[p].x, ctr[p])
       IN  /\ _x' = [_x EXCEPT ![p] = Convert(TX(inv[p]), r.val)]
           /\ ctr' = [ctr EXCEPT ![p] = r.env]
    /\ evals' = [evals EXCEPT ![p] = Append(@, "x")]
    /\ pc' = [pc EXCEPT ![p] = "bind_y"]
    /\ UNCHANGED <<inv, _y, lt, ret, diag>>

\* BindY with y's value taken from the state before x was evaluated.
BindYStale(p) ==
    /\ pc[p] = "bind_y"
    /\ _y' = [_y EXCEPT ![p] = Convert(TY(inv[p]), Eval(inv[p].y, inv[p].env).val)]
    /\ ctr' = [ctr EXCEPT ![p] = Eval(inv[p].y, ctr[p]).env]
    /\ evals' = [evals EXCEPT ![p] = Append(@, "y")]
    /\ pc' = [pc EXCEPT ![p] = "compare"]
    /\ UNCHANGED <<inv, _x, lt, ret, diag>>

\* `t_y _y = (y);`
BindY(p) ==
    /\ pc[p] = "bind_y"
    /\ LET r == Eval(inv[p].y, ctr[p])
       IN  /\ _y' = [_y EXCEPT ![p] = Convert(TY(inv[p]), r.val)]
           /\ ctr' = [ctr EXCEPT ![p] = r.env]
    /\ evals' = [evals EXCEPT ![p] = Append(@, "y")]
    /\ pc' = [pc EXCEPT ![p] = "compare"]
    /\ UNCHANGED <<inv, _x, lt, ret, diag>>

\* `_x < _y` or `_x > _y`
Compare(p) ==
    /\ pc[p] = "compare"
    /\ lt' = [lt EXCEPT ![p] = Cond(inv[p].kind, _x[p], _y[p])]
    /\ pc' = [pc EXCEPT ![p] = "select"]
    /\ UNCHANGED <<inv, ctr, _x, _y, evals, ret, diag>>

\* Select over the operand expressions instead of the temporaries:
\* `? (x) : (y)`.
SelectReeval(p) ==
    /\ pc[p] = "select"
    /\ LET o == IF lt[p] THEN "x" ELSE "y"
           r == Eval(inv[p][o], ctr[p])
       IN  /\ ret' = [ret EXCEPT ![p] = Convert(TX(inv[p]), r.val)]
           /\ ctr' = [ctr EXCEPT ![p] = r.env]
           /\ evals' = [evals EXCEPT ![p] = Append(@, o)]
    /\ pc' = [pc EXCEPT ![p] = "done"]
    /\ UNCHANGED <<inv, _x, _y, lt, diag>>

\* `? _x : _y`
Select(p) ==
    /\ pc[p] = "select"
    /\ ret' = [ret EXCEPT ![p] = IF lt[p] THEN _x[p] ELSE _y[p]]
    /\ pc' = [pc EXCEPT ![p] = "done"]
    /\ UNCHANGED <<inv, ctr, _x, _y, lt, evals, diag>>

Evaluated(p, o) == \E k \in 1..Len(evals[p]) : evals[p][k] = o

\* `(x) < (y)` of SIMPLE_MIN: the two operands of < are unsequenced, so either
\* is evaluated first.  Their values are held in _x and _y as in registers.
SimpleEval(p) ==
    /\ pc[p] = "simple_cmp"
    /\ \E o \in {"x", "y"} :
          /\ ~Evaluated(p, o)
          /\ LET r == Eval(inv[p][o], ctr[p])
             IN  /\ _x' = IF o = "x" THEN [_x EXCEPT ![p] = r.val] ELSE _x
                 /\ _y' = IF o = "y" THEN [_y EXCEPT ![p] = r.val] ELSE _y
                 /\ ctr' = [ctr EXCEPT ![p] = r.env]
          /\ evals' = [evals EXCEPT ![p] = Append(@, o)]
    /\ UNCHANGED <<inv, pc, lt, ret, diag>>

\* SimpleCompare with the comparison turned around.
SimpleCompareGreater(p) ==
    /\ pc[p] = "simple_cmp"
    /\ Evaluated(p, "x") /\ Evaluated(p, "y")
    /\ lt' = [lt EXCEPT ![p] = _x[p] > _y[p]]
    /\ pc' = [pc EXCEPT ![p] = "simple_sel"]
    /\ UNCHANGED <<inv, ctr, _x, _y, evals, ret, diag>>

\* `(x) < (y)` of SIMPLE_MIN once both operands are evaluated.
SimpleCompare(p) ==
    /\ pc[p] = "simple_cmp"
    /\ Evaluated(p, "x") /\ Evaluated(p, "y")
    /\ lt' = [lt EXCEPT ![p] = _x[p] < _y[p]]
    /\ pc' = [pc EXCEPT ![p] = "simple_sel"]
    /\ UNCHANGED <<inv, ctr, _x, _y, evals, ret, diag>>

\* SimpleSelect returning the value that was compared, with no second
\* evaluation.
SimpleSelectKept(p) ==
    /\ pc[p] = "simple_sel"
    /\ ret' = [ret EXCEPT ![p] = IF lt[p] THEN _x[p] ELSE _y[p]]
    /\ pc' = [pc EXCEPT ![p] = "done"]
    /\ UNCHANGED <<inv, ctr, _x, _y, lt, evals, diag>>

\* `? (x) : (y)` of SIMPLE_MIN: the selected operand is evaluated again.
SimpleSelect(p) ==
    /\ pc[p] = "simple_sel"
    /\ LET o == IF lt[p] THEN "x" ELSE "y"
           r == Eval(inv[p][o], ctr[p])
       IN  /\ ret' = [ret EXCEPT ![p] = r.val]
           /\ ctr' = [ctr EXCEPT ![p] = r.env]
           /\ evals' = [evals EXCEPT ![p] = Append(@, o)]
    /\ pc' = [pc EXCEPT ![p] = "done"]
    /\ UNCHANGED <<inv, _x, _y, lt, diag>>

Next ==
    \E p \in Procs :
        \/ Reject(p)
        \/ Enter(p)
        \/ BindX(p)
        \/ BindY(p)
        \/ Compare(p)
        \/ Select(p)
        \/ SimpleEval(p)
        \/ SimpleCompare(p)
        \/ SimpleSelect(p)

Spec == Init /\ [][Next]_vars

SpecConc == InitConc /\ [][Next]_vars

\* ------------------------------------------------------------------ claims

Done(p) == pc[p] = "done"

ConstCall(p) == IsConst(inv[p].x) /\ IsConst(inv[p].y)

Count(s, o) == Cardinality({k \in 1..Len(s) : s[k] = o})

\* The invocation of macro k over the operands and counters of invocation i.
Twin(i, k) == [i EXCEPT !.kind = k, !.t = NoType]

Swapped(i) == [i EXCEPT !.x = i.y, !.y = i.x]

\* C1: a completed min(x, y) over two values of one type returns x when
\* x <= y and y otherwise; min(x, x) is x.
C1_MinReturnsLesser ==
    \A p \in Procs :
        (Done(p) /\ inv[p].kind = "min") =>
            /\ inv[p].x.ty = inv[p].y.ty
            /\ ret[p] = IF _x[p] <= _y[p] THEN _x[p] ELSE _y[p]
            /\ ConstCall(p) =>
                  /\ ret[p] = IF inv[p].x.v <= inv[p].y.v
                              THEN inv[p].x.v ELSE inv[p].y.v
                  /\ inv[p].x.v = inv[p].y.v => ret[p] = inv[p].x.v

C1_Witness ==
    \E p \in Procs :
        /\ Done(p) /\ inv[p].kind = "min" /\ ConstCall(p)
        /\ inv[p].x.v = inv[p].y.v
        /\ inv[p].x.v = TypeMin(inv[p].x.ty)
        /\ ret[p] = inv[p].x.v

\* C2: a completed max(x, y) over two values of one type returns x when
\* x >= y and y otherwise; max(x, x) is x.
C2_MaxReturnsGreater ==
    \A p \in Procs :
        (Done(p) /\ inv[p].kind = "max") =>
            /\ inv[p].x.ty = inv[p].y.ty
            /\ ret[p] = IF _x[p] >= _y[p] THEN _x[p] ELSE _y[p]
            /\ ConstCall(p) =>
                  /\ ret[p] = IF inv[p].x.v >= inv[p].y.v
                              THEN inv[p].x.v ELSE inv[p].y.v
                  /\ inv[p].x.v = inv[p].y.v => ret[p] = inv[p].x.v

C2_Witness ==
    \E p \in Procs :
        /\ Done(p) /\ inv[p].kind = "max" /\ ConstCall(p)
        /\ inv[p].x.v < inv[p].y.v
        /\ inv[p].x.v < 0
        /\ ret[p] = inv[p].y.v

\* C3: when min, max, min_t or max_t completes, each operand has been
\* evaluated exactly once and each counter has been incremented once per
\* operand that increments it, whichever operand was selected.
C3_SingleEvaluation ==
    \A p \in Procs :
        (Done(p) /\ inv[p].kind \in BlockKinds) =>
            /\ Count(evals[p], "x") = 1
            /\ Count(evals[p], "y") = 1
            /\ \A c \in Ctrs :
                  ctr[p][c] = (inv[p].env[c] + Incs(inv[p].x, c) + Incs(inv[p].y, c))
                                  % Modulus(CtrType)

C3_Witness ==
    \E p \in Procs :
        /\ Done(p) /\ inv[p].kind \in BlockKinds
        /\ HasEffect(inv[p].x) /\ HasEffect(inv[p].y)
        /\ inv[p].x.c # inv[p].y.c
        /\ lt[p]
        /\ \A c \in Ctrs : ctr[p][c] = inv[p].env[c] + 1

\* r is v converted to t: in t's range and congruent to v modulo 2^w.
IsCoerced(t, v, r) ==
    /\ TypeMin(t) <= r /\ r <= TypeMax(t)
    /\ (r - v) % Modulus(t) = 0

\* C4: a completed min_t(t, x, y) or max_t(t, x, y) over integer operands,
\* in t's range or not, compared the operands converted to t and returns
\* what min or max returns for the converted values.
C4_CoerceThenCompare ==
    \A p \in Procs :
        (Done(p) /\ inv[p].kind \in {"min_t", "max_t"} /\ ConstCall(p)) =>
            LET t == inv[p].t
                base == IF inv[p].kind = "min_t" THEN "min" ELSE "max"
                conv == [kind |-> base, t |-> NoType, x |-> Const(t, _x[p]),
                         y |-> Const(t, _y[p]), env |-> inv[p].env]
            IN  /\ IsCoerced(t, inv[p].x.v, _x[p])
                /\ IsCoerced(t, inv[p].y.v, _y[p])
                /\ ret[p] = StmtExpr(conv)
                /\ ret[p] = IF base = "min"
                            THEN (IF _x[p] <= _y[p] THEN _x[p] ELSE _y[p])
                            ELSE (IF _x[p] >= _y[p] THEN _x[p] ELSE _y[p])

C4_Witness ==
    \E p \in Procs :
        /\ Done(p) /\ inv[p].kind = "min_t" /\ ConstCall(p)
        /\ inv[p].x.v > TypeMax(inv[p].t)
        /\ inv[p].x.v > inv[p].y.v
        /\ TypeMin(inv[p].t) <= inv[p].y.v /\ inv[p].y.v <= TypeMax(inv[p].t)
        /\ ret[p] = _x[p]
        /\ ret[p] # inv[p].y.v

\* C5: a completed SIMPLE_MIN(x, y) over two constants of one type returns
\* the value min(x, y) returns.
C5_SimpleMinAgreesWithMin ==
    \A p \in Procs :
        (/\ Done(p) /\ inv[p].kind = "SIMPLE_MIN" /\ ConstCall(p)
         /\ inv[p].x.ty = inv[p].y.ty) =>
            ret[p] = StmtExpr(Twin(inv[p], "min"))

C5_Witness ==
    \E p \in Procs :
        /\ Done(p) /\ inv[p].kind = "SIMPLE_MIN" /\ ConstCall(p)
        /\ inv[p].x.ty = inv[p].y.ty
        /\ inv[p].x.v > inv[p].y.v
        /\ ret[p] = inv[p].y.v

\* C6: a min or max whose operand types differ is stopped by the build with
\* a diagnostic before anything of it runs (no operand evaluated, no value
\* produced); min_t and max_t are never stopped, whatever the operand types.
C6_MismatchRejectedAtBuild ==
    \A p \in Procs :
        /\ (/\ inv[p].kind \in {"min", "max"}
            /\ inv[p].x.ty # inv[p].y.ty
            /\ pc[p] # "compile") =>
               /\ pc[p] = "rejected"
               /\ diag[p]
               /\ evals[p] = <<>>
               /\ ctr[p] = inv[p].env
        /\ inv[p].kind \in {"min_t", "max_t"} => (pc[p] # "rejected" /\ ~diag[p])

C6_Witness ==
    \E p \in Procs :
        /\ inv[p].kind = "min"
        /\ inv[p].x.ty = "__s8" /\ inv[p].y.ty = "__u8"
        /\ pc[p] = "rejected"

\* C7: with every context expanding a macro at once, under every
\* interleaving of their steps a completed min, max, min_t or max_t returns
\* the value its statement expression has when run alone.
C7_ConcurrentAsAlone ==
    \A p \in Procs :
        (Done(p) /\ inv[p].kind \in BlockKinds) => ret[p] = StmtExpr(inv[p])

C7_Witness ==
    \E p, q \in Procs :
        /\ p # q
        /\ Done(p) /\ inv[p].kind \in BlockKinds
        /\ Done(q) /\ inv[q].kind \in BlockKinds
        /\ ret[p] # ret[q]
        /\ _x[p] # _x[q]

SimpleSel(p) == IF lt[p] THEN "x" ELSE "y"

SimpleOther(p) == IF lt[p] THEN "y" ELSE "x"

\* C8 (as amended): a completed SIMPLE_MIN(x, y) has evaluated the returned
\* operand exactly twice and the other exactly once: x and y once each for
\* the comparison, in either order, then the selected one again, whose second
\* value is what is returned.
C8_SimpleMinEvaluations ==
    \A p \in Procs :
        (Done(p) /\ inv[p].kind = "SIMPLE_MIN") =>
            /\ Len(evals[p]) = 3
            /\ {evals[p][1], evals[p][2]} = {"x", "y"}
            /\ evals[p][3] = SimpleSel(p)
            /\ lt[p] = (_x[p] < _y[p])
            /\ Count(evals[p], SimpleSel(p)) = 2
            /\ Count(evals[p], SimpleOther(p)) = 1
            /\ \A c \in Ctrs :
                  ctr[p][c] = (inv[p].env[c]
                               + 2 * Incs(inv[p][SimpleSel(p)], c)
                               + Incs(inv[p][SimpleOther(p)], c)) % Modulus(CtrType)

\* C8 (as claimed): the three evaluations are x, then y, then the selected
\* operand.
C8_SimpleMinXThenY ==
    \A p \in Procs :
        (Done(p) /\ inv[p].kind = "SIMPLE_MIN") =>
            /\ Len(evals[p]) = 3
            /\ evals[p][1] = "x"
            /\ evals[p][2] = "y"
            /\ evals[p][3] = SimpleSel(p)

\* The returned value differs from the value compared and from what min
\* returns for the same operands.
C8_Witness ==
    \E p \in Procs :
        /\ Done(p) /\ inv[p].kind = "SIMPLE_MIN"
        /\ inv[p].x.ty = inv[p].y.ty
        /\ HasEffect(inv[p].x)
        /\ lt[p]
        /\ ret[p] # _x[p]
        /\ ret[p] # StmtExpr(Twin(inv[p], "min"))

Bound(p) == pc[p] \in {"compare", "select", "done"}

\* C9: in min, max, min_t and max_t, x is evaluated before y and both before
\* the comparison; when x increments a counter that y reads, y's value is
\* the incremented one.
C9_XBeforeY ==
    \A p \in Procs :
        inv[p].kind \in BlockKinds =>
            /\ pc[p] = "bind_x" => evals[p] = <<>>
            /\ pc[p] = "bind_y" => evals[p] = <<"x">>
            /\ Bound(p) => evals[p] = <<"x", "y">>
            /\ (/\ Bound(p)
                /\ HasEffect(inv[p].x)
                /\ inv[p].y.op = "read"
                /\ inv[p].y.c = inv[p].x.c) =>
                   _y[p] = Convert(TY(inv[p]),
                                   (inv[p].env[inv[p].x.c] + 1) % Modulus(CtrType))

C9_Witness ==
    \E p \in Procs :
        /\ Done(p) /\ inv[p].kind = "min"
        /\ inv[p].x.op = "postinc"
        /\ inv[p].y.op = "read"
        /\ inv[p].y.c = inv[p].x.c
        /\ _x[p] = inv[p].env[inv[p].x.c]
        /\ _y[p] = _x[p] + 1
        /\ ret[p] = _x[p]

\* C10: over two values x, y of one type, min(x, y) and max(x, y) are each
\* one of the operands, min <= max, the two results are x and y in some
\* order, and swapping the arguments changes neither.
C10_MinMaxPartition ==
    \A p \in Procs :
        (Done(p) /\ inv[p].kind \in {"min", "max"} /\ ConstCall(p)) =>
            LET x == inv[p].x.v
                y == inv[p].y.v
                lo == IF inv[p].kind = "min" THEN ret[p]
                      ELSE StmtExpr(Twin(inv[p], "min"))
                hi == IF inv[p].kind = "max" THEN ret[p]
                      ELSE StmtExpr(Twin(inv[p], "max"))
            IN  /\ lo \in {x, y}
                /\ hi \in {x, y}
                /\ lo <= hi
                /\ (lo = x /\ hi = y) \/ (lo = y /\ hi = x)
                /\ lo = StmtExpr(Swapped(Twin(inv[p], "min")))
                /\ hi = StmtExpr(Swapped(Twin(inv[p], "max")))

C10_Witness ==
    \E p \in Procs :
        /\ Done(p) /\ inv[p].kind = "min" /\ ConstCall(p)
        /\ inv[p].x.v > inv[p].y.v
        /\ ret[p] = inv[p].y.v
        /\ StmtExpr(Twin(inv[p], "max")) = inv[p].x.v

====
